---- MODULE Spec2Model ----
(***************************************************************************)
(* Model of src/src/TemplateModule.js: the "Proof of Existence" panel.     *)
(*                                                                         *)
(* The React component Main keeps the state digest, owner, block and       *)
(* currentValue.  An effect, re-run whenever digest changes, opens two     *)
(* chain subscriptions (something, proofs) and remembers ONE unsubscribe   *)
(* function for its cleanup.  A FileReader, held in a variable local to    *)
(* each render of Main, turns a chosen file into a digest.                 *)
(*                                                                         *)
(* JavaScript strings that the code builds (the hexadecimal content, the   *)
(* digest) are sequences of characters; '' is << >>.                       *)
(***************************************************************************)
EXTENDS Integers, Sequences, FiniteSets, TLC

\* ------------------------------------------------------------------ bounds
\* Number of files the user selects in one behaviour.
MaxReaders == 2
\* Number of claims created on the chain (the n-th is included in block n).
MaxClaims == 1

\* ------------------------------------------------------- inputs and chain
\* The contents (bytes) of the files the user can select.
Files == { <<10, 255>> }

\* props.accountPair.address, and another account of the chain.
AccountAddress == "alice"
OtherAddress == "bob"
Accounts == {AccountAddress, OtherAddress}

\* result[0].toString() of a proofs entry nobody claimed (default AccountId).
DefaultAccount == "default"
\* The proofs entry of an unclaimed digest: (default account, block 0).
Unclaimed == <<DefaultAccount, 0>>

\* Values of the Option<u32> storage item `something`.
None == [isNone |-> TRUE, value |-> 0]
Some(n) == [isNone |-> FALSE, value |-> n]
SomethingValues == {None, Some(42)}

\* A JavaScript value that is a number or a string (currentValue is both).
Number(n) == [isNumber |-> TRUE, number |-> n, string |-> ""]
String(s) == [isNumber |-> FALSE, number |-> 0, string |-> s]

\* ------------------------------------------------------- bufferToDigest
HexDigits == <<"0", "1", "2", "3", "4", "5", "6", "7",
               "8", "9", "a", "b", "c", "d", "e", "f">>

\* Number.prototype.toString(16): the shortest lowercase hexadecimal numeral.
RECURSIVE toString16(_)
toString16(b) ==
    IF b < 16 THEN <<HexDigits[b + 1]>>
    ELSE toString16(b \div 16) \o <<HexDigits[(b % 16) + 1]>>

\* String.prototype.padStart(n, c): c is put in front until the length is n.
RECURSIVE padStart(_, _, _)
padStart(s, n, c) ==
    IF Len(s) >= n THEN s ELSE padStart(<<c>> \o s, n, c)

\* Array.prototype.join(''): the concatenation of the strings, in order.
RECURSIVE join(_)
join(strs) ==
    IF strs = << >> THEN << >> ELSE Head(strs) \o join(Tail(strs))

\* new Uint8Array(fileReader.result): the bytes of the buffer; a result of
\* null (the reader has not finished, or failed) gives an empty array.
NullResult == [isNull |-> TRUE, bytes |-> << >>]
ArrayBuffer(bytes) == [isNull |-> FALSE, bytes |-> bytes]
Uint8Array(result) == IF result.isNull THEN << >> ELSE result.bytes

\* blake2AsHex(data, 256): the hash is not computed; it is the term
\* "0x" blake2_256(data), so two digests are equal iff the hashed strings are.
blake2AsHex(data, bitLength) ==
    IF bitLength = 256 THEN <<"0x", "blake2_256">> \o data
    ELSE <<"0x", "blake2">> \o data

\* Lines 33-37 of bufferToDigest: the digest computed from fileReader.result.
hexContent(result) ==
    join([i \in 1..Len(Uint8Array(result)) |->
            padStart(toString16(Uint8Array(result)[i]), 2, "0")])
hashOfResult(result) == blake2AsHex(hexContent(result), 256)

\* Every key the component can query in proofs: '' and the possible digests.
Digests == {hashOfResult(r) : r \in {ArrayBuffer(f) : f \in Files} \cup {NullResult}}
Keys == { << >> } \cup Digests

\* ------------------------------------------------------------------ state
VARIABLES
    mounted,       \* Main is rendered (TemplateModule returned <Main/>)
    digest,        \* useState('')     line 20
    owner,         \* useState('')     line 21
    block,         \* useState(0)      line 22
    currentValue,  \* useState(0)      line 24
    fileReader,    \* line 28: one `let fileReader` per render of Main whose
                   \* handlers were used; 0 is undefined, else a reader
    readers,       \* the FileReader objects created by handleFileChosen
    unsubscribe,   \* line 43: `let unsubscribe` of the current effect run
    effects,       \* the runs of the effect of lines 42-72, oldest first
    proofs,        \* chain storage templateModule.proofs
    something,     \* chain storage templateModule.something
    height         \* block number of the latest claim created

vars == <<mounted, digest, owner, block, currentValue, fileReader, readers,
          unsubscribe, effects, proofs, something, height>>

react == <<digest, owner, block, currentValue>>
chain == <<proofs, something, height>>

\* One run of the effect: the digest it ran with and the two subscriptions
\* it asked for.  A subscription is "pending" until its promise resolves,
\* then "active" until its unsub function is called.  proofsNotify: the
\* entry changed on the chain and the callback was not yet called with it.
newEffect(d) ==
    [ digest       |-> d,
      something    |-> "pending",
      proofs       |-> "pending",
      proofsNotify |-> FALSE ]

Init ==
    /\ mounted = TRUE
    /\ digest = << >>
    /\ owner = ""
    /\ block = 0
    /\ currentValue = Number(0)
    /\ fileReader = <<0>>
    /\ readers = << >>
    /\ unsubscribe = "undefined"
    /\ effects = <<newEffect(<< >>)>>
    /\ proofs = [k \in Keys |-> Unclaimed]
    /\ something = None
    /\ height = 0

\* The cleanup of run r has run: a later run replaced it, or Main unmounted.
\* The `unsubscribe` variable of such a run is never read again.
cleaned(r) == r < Len(effects) \/ ~mounted

\* --------------------------------------------------------------- rendering
\* (a slip: "claimed" decided by the owner instead of the block number)
isClaimedByOwner == owner # ""
\* line 82: isClaimed
isClaimed == block # 0

\* line 124: <Form success=... warning=...>; the success (warning) Message
\* is shown exactly when the form has the success (warning) state.
formSuccess == digest # << >> /\ ~isClaimed
formWarning == isClaimed

\* (a slip: 'Create Claim' without the test for a selected file)
createClaimDisabledNoDigest == isClaimed
\* line 151 and line 166: the `disabled` prop of the two claim buttons.
createClaimDisabled == isClaimed \/ digest = << >>
revokeClaimDisabled == ~isClaimed \/ owner # AccountAddress

\* A state change re-renders Main: the new render has a new `fileReader`
\* variable (line 28), undefined.  A render whose variable was never
\* assigned is not told apart from the one that replaces it.
render(frs) == IF frs[Len(frs)] = 0 THEN frs ELSE Append(frs, 0)

\* line 68: `unsubscribe && unsubscribe()`, the cleanup of effect run e:
\* the one subscription whose unsub function the variable holds is ended.
cleanup(e) ==
    [ e EXCEPT
        !.something = IF unsubscribe = "something" THEN "unsubscribed" ELSE @,
        !.proofs = IF unsubscribe = "proofs" THEN "unsubscribed" ELSE @,
        !.proofsNotify = IF unsubscribe = "proofs" THEN FALSE ELSE @ ]

\* setDigest(hash) (line 38) and what React does with it: nothing when Main
\* is unmounted or the value is the same; else a re-render, the cleanup of
\* the current effect run and a new run for the new digest (line 72).
setDigest(hash) ==
    IF mounted /\ hash # digest
    THEN /\ digest' = hash
         /\ fileReader' = render(fileReader)
         /\ effects' = Append([effects EXCEPT ![Len(effects)] = cleanup(@)],
                              newEffect(hash))
         /\ unsubscribe' = "undefined"
    ELSE UNCHANGED <<digest, fileReader, effects, unsubscribe>>

\* ------------------------------------------------------------ file reading
\* lines 75-79, handleFileChosen(file): a new FileReader is stored in the
\* `fileReader` variable of the current render and starts reading.
handleFileChosen(file) ==
    /\ mounted
    /\ Len(readers) < MaxReaders
    /\ readers' = Append(readers,
                         [ file       |-> file,
                           readyState |-> "LOADING",
                           result     |-> NullResult,
                           closure    |-> Len(fileReader) ])
    /\ fileReader' = [fileReader EXCEPT ![Len(fileReader)] = Len(readers) + 1]
    /\ UNCHANGED <<mounted, react, unsubscribe, effects, chain>>

\* The read of reader i ends (onloadend, line 77) with the bytes of the
\* file (read errors are left out).  Its handler is the bufferToDigest
\* (lines 31-39) of the render that created the reader, which reads the
\* result of whatever reader that render's `fileReader` holds now: null
\* while that reader is still loading.
loadEnd(i) ==
    /\ readers[i].readyState = "LOADING"
    /\ readers' = [readers EXCEPT
                      ![i].readyState = "DONE",
                      ![i].result = ArrayBuffer(readers[i].file)]
    /\ setDigest(hashOfResult(readers'[fileReader[readers[i].closure]].result))
    /\ UNCHANGED <<mounted, owner, block, currentValue, chain>>

\* ----------------------------------------------------------- subscriptions
\* lines 44-52: the callback of the `something` subscription.
newCurrentValue(newValue) ==
    IF newValue.isNone THEN String("<None>") ELSE Number(newValue.value)

\* lines 44-55: the `something` subscription of run r delivers its first
\* value: the promise resolves, `unsubscribe` is overwritten with its unsub
\* function (line 54) and the callback is called with the value.
somethingSubscribed(r) ==
    /\ effects[r].something = "pending"
    /\ effects' = [effects EXCEPT ![r].something = "active"]
    /\ unsubscribe' = IF cleaned(r) THEN unsubscribe ELSE "something"
    /\ IF mounted
       THEN /\ currentValue' = newCurrentValue(something)
            /\ fileReader' = IF currentValue' # currentValue
                             THEN render(fileReader) ELSE fileReader
       ELSE UNCHANGED <<currentValue, fileReader>>
    /\ UNCHANGED <<mounted, digest, owner, block, readers, chain>>

\* (a slip: the callback without line 63, setBlock)
proofsResultOwnerOnly(r) ==
    IF mounted
    THEN /\ owner' = proofs[effects[r].digest][1]
         /\ block' = block
         /\ fileReader' = IF owner' # owner
                          THEN render(fileReader) ELSE fileReader
    ELSE UNCHANGED <<owner, block, fileReader>>

\* lines 61-63: the callback of the `proofs` subscription of run r, called
\* with the chain's entry for the digest the run subscribed with.
proofsResult(r) ==
    IF mounted
    THEN /\ owner' = proofs[effects[r].digest][1]
         /\ block' = proofs[effects[r].digest][2]
         /\ fileReader' = IF <<owner', block'>> # <<owner, block>>
                          THEN render(fileReader) ELSE fileReader
    ELSE UNCHANGED <<owner, block, fileReader>>

\* lines 60-66: the `proofs` subscription of run r delivers its first value:
\* the promise resolves, `unsubscribe` is overwritten with its unsub function
\* (line 65) and the callback is called with the value.
proofsSubscribed(r) ==
    /\ effects[r].proofs = "pending"
    /\ effects' = [effects EXCEPT ![r].proofs = "active"]
    /\ unsubscribe' = IF cleaned(r) THEN unsubscribe ELSE "proofs"
    /\ proofsResult(r)
    /\ UNCHANGED <<mounted, digest, currentValue, readers, chain>>

\* The `proofs` subscription of run r delivers a changed entry.
proofsCallback(r) ==
    /\ effects[r].proofs = "active"
    /\ effects[r].proofsNotify
    /\ effects' = [effects EXCEPT ![r].proofsNotify = FALSE]
    /\ proofsResult(r)
    /\ UNCHANGED <<mounted, digest, currentValue, readers, unsubscribe, chain>>

\* Main is unmounted: the cleanup of the current effect run is called and
\* the state of Main is discarded.  Whatever is still to come (the end of a
\* read, a subscription callback) calls a state setter of an unmounted
\* component, which does nothing: reads and notifications are dropped, and
\* only the subscriptions themselves are followed further.
unmount ==
    /\ mounted
    /\ mounted' = FALSE
    /\ effects' = [r \in 1..Len(effects) |->
                     [(IF r = Len(effects) THEN cleanup(effects[r])
                                           ELSE effects[r])
                         EXCEPT !.proofsNotify = FALSE]]
    /\ unsubscribe' = "undefined"
    /\ digest' = << >>
    /\ owner' = ""
    /\ block' = 0
    /\ currentValue' = Number(0)
    /\ readers' = << >>
    /\ fileReader' = <<0>>
    /\ UNCHANGED chain

\* ------------------------------------------------------------------- chain
\* The chain is followed while Main is mounted.  `something` keeps the
\* value it had when Main was mounted (the 'Store Something' form is not
\* part of the model).

\* The live proofs subscriptions for key k have a new value to deliver.
notifyProofs(k) ==
    [r \in 1..Len(effects) |->
        IF effects[r].digest = k /\ effects[r].proofs = "active"
        THEN [effects[r] EXCEPT !.proofsNotify = TRUE] ELSE effects[r]]

\* templateModule.createClaim(k) signed by who is included in a block.
createClaim(k, who) ==
    /\ mounted
    /\ height < MaxClaims
    /\ proofs[k] = Unclaimed
    /\ height' = height + 1
    /\ proofs' = [proofs EXCEPT ![k] = <<who, height + 1>>]
    /\ effects' = notifyProofs(k)
    /\ UNCHANGED <<mounted, react, fileReader, readers, unsubscribe, something>>

\* templateModule.revokeClaim(k) signed by who is included in a block.
revokeClaim(k, who) ==
    /\ mounted
    /\ proofs[k] # Unclaimed
    /\ proofs[k][1] = who
    /\ proofs' = [proofs EXCEPT ![k] = Unclaimed]
    /\ effects' = notifyProofs(k)
    /\ UNCHANGED <<mounted, react, fileReader, readers, unsubscribe, something,
                   height>>

\* lines 146-158: the user presses 'Create Claim'.
clickCreateClaim ==
    /\ ~createClaimDisabled
    /\ createClaim(digest, AccountAddress)

\* lines 161-173: the user presses 'Revoke Claim'.
clickRevokeClaim ==
    /\ ~revokeClaimDisabled
    /\ revokeClaim(digest, AccountAddress)

\* Some other client of the chain creates or revokes a claim.
otherCreateClaim(k, who) == createClaim(k, who)
otherRevokeClaim(k, who) == revokeClaim(k, who)

\* ------------------------------------------------------------ specification
Next ==
    \/ \E f \in Files : handleFileChosen(f)
    \/ \E i \in 1..Len(readers) : loadEnd(i)
    \/ \E r \in 1..Len(effects) : somethingSubscribed(r)
    \/ \E r \in 1..Len(effects) : proofsSubscribed(r)
    \/ \E r \in 1..Len(effects) : proofsCallback(r)
    \/ unmount
    \/ clickCreateClaim
    \/ clickRevokeClaim
    \/ \E k \in Keys, who \in Accounts : otherCreateClaim(k, who)
    \/ \E k \in Keys, who \in Accounts : otherRevokeClaim(k, who)

Spec == Init /\ [][Next]_vars

\* The effect runs a behaviour can have: the first and one per file read.
RunIds == 1..(MaxReaders + 1)

\* The event loop runs every callback that is due: a subscription that was
\* asked for delivers its first value, and one with a changed value delivers
\* it.
LiveSpec ==
    /\ Spec
    /\ \A r \in RunIds : WF_vars(r <= Len(effects) /\ proofsSubscribed(r))
    /\ \A r \in RunIds : WF_vars(r <= Len(effects) /\ proofsCallback(r))

\* ------------------------------------------------------------------ claims
\* C1: whenever the 'Create Claim' button is enabled, a file is selected
\* (digest is not empty) and the stored block number is 0.
C1_CreateClaimEnabled ==
    ~createClaimDisabled => (digest # << >> /\ block = 0)

\* A file was read and 'Create Claim' is enabled for its digest.
C1_Witness ==
    mounted /\ ~createClaimDisabled /\ digest \in Digests /\ owner # ""

\* C2: whenever the 'Revoke Claim' button is enabled, a file is selected
\* (digest is not empty) and the stored block number is not 0.
C2_RevokeClaimEnabled ==
    ~revokeClaimDisabled => (digest # << >> /\ block # 0)

\* C3: when the read of a file with bytes B ends, digest is set to
\* HashFunction(hex_encode(B)), hex_encode(B) being two lowercase
\* hexadecimal digits per byte, in byte order.
RECURSIVE hex_encode(_)
hex_encode(B) ==
    IF B = << >> THEN << >>
    ELSE <<HexDigits[(Head(B) \div 16) + 1], HexDigits[(Head(B) % 16) + 1]>>
         \o hex_encode(Tail(B))
HashFunction(str) == blake2AsHex(str, 256)
C3_DigestOfFile ==
    [][\A i \in 1..Len(readers) :
         ( /\ readers[i].readyState = "LOADING"
           /\ i <= Len(readers')
           /\ readers'[i].readyState = "DONE" )
         => digest' = HashFunction(hex_encode(readers[i].file))]_vars

\* C4: when the chain's proofs entry for the selected digest has a value the
\* current subscription has not delivered yet (its first value, or a
\* change), then, unless the digest changes or Main is unmounted, owner and
\* block eventually equal the chain's entry for that digest.
C4_LatestValue ==
    \A r \in RunIds :
        ( /\ mounted
          /\ Len(effects) = r
          /\ (effects[r].proofs = "pending" \/ effects[r].proofsNotify) )
        ~> ( \/ ~mounted
             \/ Len(effects) # r
             \/ <<owner, block>> = proofs[digest] )

\* The entry of the selected file was claimed on the chain and the current
\* subscription has delivered the claim.
C4_Witness ==
    /\ mounted
    /\ digest \in Digests
    /\ proofs[digest] # Unclaimed
    /\ effects[Len(effects)].proofs = "active"
    /\ ~effects[Len(effects)].proofsNotify
    /\ <<owner, block>> = proofs[digest]

\* C5: the success message is shown exactly when a digest is set and block
\* is 0, the warning message exactly when block is not 0, and never both.
C5_Messages ==
    /\ formSuccess <=> (digest # << >> /\ block = 0)
    /\ formWarning <=> (block # 0)
    /\ ~(formSuccess /\ formWarning)

\* The warning is shown for a selected file that is claimed.
C5_Witness ==
    mounted /\ formWarning /\ ~formSuccess /\ digest \in Digests /\ block # 0

\* C6: once the cleanup of an effect run has run and both of its
\* subscription promises have resolved, both subscriptions are unsubscribed.
C6_AllUnsubscribed ==
    \A r \in 1..Len(effects) :
        ( /\ cleaned(r)
          /\ effects[r].something # "pending"
          /\ effects[r].proofs # "pending" )
        => ( /\ effects[r].something = "unsubscribed"
             /\ effects[r].proofs = "unsubscribed" )

====
